---- MODULE Spec2Model ----
(***************************************************************************)
(* Model of ProjetGo/Vehicules.go: the interactive prompts of main, the    *)
(* query construction, HTTP fetch and response decoding of fetchVehicles,  *)
(* the console listing, and the two exporters saveVehiclesToJSON and       *)
(* saveVehiclesToCSV.                                                      *)
(*                                                                         *)
(* Strings are TLA+ strings and are built by concatenation exactly as the  *)
(* Go code builds them.  A decoded JSON document is a tagged tuple:        *)
(*   <<"null">>, <<"bool", b>>, <<"num", tenths>>, <<"str", s>>,           *)
(*   <<"arr", seq>>, <<"obj", seq of <<key, value>> >>                     *)
(* and a response body is either such a document or Garbage (bytes that    *)
(* are not JSON).  Numbers are held in tenths so that float64 values with  *)
(* a fractional part exist.                                                *)
(***************************************************************************)
EXTENDS Integers, Sequences, FiniteSets, TLC

VARIABLES
    pc,          \* position of main
    make, model, sort, year, cylinders, resultNb,   \* main's locals (l.169-170)
    apiURL,      \* fetchVehicles' apiURL once built
    body,        \* the response body read by io.ReadAll
    vehicles,    \* main's vehicles ([]Vehicle returned by fetchVehicles)
    err,         \* the error returned by fetchVehicles ("" is nil)
    stdout,      \* lines main prints once fetchVehicles has returned
    jsonFile,    \* vehicles.json: [exists, content]
    csvFile,     \* vehicles.csv:  [exists, content]
    jsonRun,     \* record of the saveVehiclesToJSON call, or NotCalled
    csvRun       \* record of the saveVehiclesToCSV call, or NotCalled

vars == <<pc, make, model, sort, year, cylinders, resultNb, apiURL, body,
          vehicles, err, stdout, jsonFile, csvFile, jsonRun, csvRun>>

inputVars == <<make, model, sort, year, cylinders, resultNb>>
runVars == <<apiURL, body, vehicles, err, stdout, jsonFile, csvFile, jsonRun, csvRun>>

----------------------------------------------------------------------------
(* Bounds of the model *)

\* longest `records` array of a generated response body
MaxRecords == 3
\* number of CSV rows the csv.Writer's buffer holds before it must flush
BufRows == 2

----------------------------------------------------------------------------
(* Program constants *)

MinYear == 1980
MaxYear == 2025
MaxResultNb == 50
StatusOK == 200

BaseURL == "https://public.opendatasoft.com/api/records/1.0/search/?dataset=all-vehicles-model&q="
DefaultRows == "&rows=10"

SortFields == {"make", "model", "year", "cylinders"}
CylinderCounts == {3, 4, 5, 6, 8, 10, 12, 16}

----------------------------------------------------------------------------
(* String helpers *)

\* fmt.Sprintf("%d", n) and strconv.Itoa(n)
Itoa(n) == ToString(n)

\* number of (possibly overlapping) occurrences of sub in s
Count(sub, s) ==
    Cardinality({i \in 1..(Len(s) - Len(sub) + 1) : SubSeq(s, i, i + Len(sub) - 1) = sub})

HasPrefix(s, p) == Len(s) >= Len(p) /\ SubSeq(s, 1, Len(p)) = p

----------------------------------------------------------------------------
(* fetchVehicles, lines 25-54: query construction *)

RowsClause(nb) == IF nb # 0 THEN "&rows=" \o Itoa(nb) ELSE DefaultRows

SortClause(srt) == IF srt # "" THEN "&sort=" \o srt ELSE ""

MakeClause(mk) == IF mk # "" THEN "&refine.make=" \o mk ELSE ""

ModelClause(mdl) == IF mdl # "" THEN "&refine.model=" \o mdl ELSE ""

YearClause(yr) == IF yr # 0 THEN "&refine.year=" \o Itoa(yr) ELSE ""

CylindersClause(cyl) == IF cyl # 0 THEN "&refine.cylinders=" \o Itoa(cyl) ELSE ""

BuildURL(mk, mdl, srt, yr, cyl, nb) ==
    BaseURL \o RowsClause(nb) \o SortClause(srt) \o MakeClause(mk)
            \o ModelClause(mdl) \o YearClause(yr) \o CylindersClause(cyl)

----------------------------------------------------------------------------
(* main, lines 169-226: the prompts *)

\* What one line typed at a prompt makes fmt.Scanln store.  A blank or
\* non-numeric line stores nothing into an int (parsed = FALSE).
Blank == [parsed |-> FALSE, val |-> 0]
Typed(n) == [parsed |-> TRUE, val |-> n]

ScanlnInt(cur, in) == IF in.parsed THEN in.val ELSE cur

\* fmt.Scanln(&s) stores the typed token; an empty line stores nothing
ScanlnString(cur, in) == IF in # "" THEN in ELSE cur

MakeInputs == {"", "Honda", "Kia&sort=year", "Kia&rows=50", "Kia&refine.make=Fiat"}
ModelInputs == {"", "Civic", "Rio&refine.cylinders=4"}
YearInputs == {Blank} \cup {Typed(n) : n \in {0, 12, 1979, 1980, 2015, 2025, 2026}}
CylindersInputs == {Blank} \cup {Typed(n) : n \in {0, 2, 3, 6, 7, 8, 16, 17}}
ResultNbInputs == {Blank} \cup {Typed(n) : n \in {-1, 0, 5, 50, 51}}
SortInputs == {"", "make", "year", "price"}

YearOK_Off(yr) == yr = 0 \/ (yr >= MinYear - 1 /\ yr <= MaxYear)

YearOK(yr) == yr = 0 \/ (yr >= MinYear /\ yr <= MaxYear)

CylindersOK(cyl) ==
    (cyl = 0 \/ (cyl >= 3 /\ cyl <= 6)) \/ cyl = 8 \/ cyl = 10 \/ cyl = 12 \/ cyl = 16

ResultNbOK(nb) == nb >= 0 /\ nb <= MaxResultNb

SortOK(srt) == srt = "" \/ srt = "make" \/ srt = "model" \/ srt = "year" \/ srt = "cylinders"

\* an exporter call: whether os.Create succeeded, whether every write to the
\* file succeeded, the error returned ("" is nil), and whether the
\* "Vehicles data saved to ..." line was printed
NotCalled == [called |-> FALSE, createOK |-> FALSE, writeOK |-> FALSE, err |-> "", saved |-> FALSE]

OldJSON == [exists |-> TRUE, content |-> <<"previous run">>]
OldCSV == [exists |-> TRUE, content |-> <<"previous run">>]

RunInit ==
    /\ apiURL = ""
    /\ body = <<"none">>
    /\ vehicles = <<>>
    /\ err = ""
    /\ stdout = <<>>
    /\ jsonFile = OldJSON
    /\ csvFile = OldCSV
    /\ jsonRun = NotCalled
    /\ csvRun = NotCalled

\* the state when main starts: every local holds its zero value
InitMain ==
    /\ pc = "askMake"
    /\ make = "" /\ model = "" /\ sort = ""
    /\ year = 0 /\ cylinders = 0 /\ resultNb = 0
    /\ RunInit

\* lines 173-176
AskMake ==
    /\ pc = "askMake"
    /\ \E in \in MakeInputs : make' = ScanlnString(make, in)
    /\ pc' = IF make' # "" THEN "askModel" ELSE "promptYear"
    /\ UNCHANGED <<model, sort, year, cylinders, resultNb, runVars>>

\* lines 177-178
AskModel ==
    /\ pc = "askModel"
    /\ \E in \in ModelInputs : model' = ScanlnString(model, in)
    /\ pc' = "promptYear"
    /\ UNCHANGED <<make, sort, year, cylinders, resultNb, runVars>>

\* lines 182-183: the loop resets year and prints the prompt
PromptYear ==
    /\ pc = "promptYear"
    /\ year' = 0
    /\ pc' = "scanYear"
    /\ UNCHANGED <<make, model, sort, cylinders, resultNb, runVars>>

\* lines 184-190
ScanYear ==
    /\ pc = "scanYear"
    /\ \E in \in YearInputs : year' = ScanlnInt(year, in)
    /\ pc' = IF YearOK(year') THEN "promptCylinders" ELSE "promptYear"
    /\ UNCHANGED <<make, model, sort, cylinders, resultNb, runVars>>

\* lines 194-195
PromptCylinders ==
    /\ pc = "promptCylinders"
    /\ cylinders' = 0
    /\ pc' = "scanCylinders"
    /\ UNCHANGED <<make, model, sort, year, resultNb, runVars>>

\* lines 196-202
ScanCylinders ==
    /\ pc = "scanCylinders"
    /\ \E in \in CylindersInputs : cylinders' = ScanlnInt(cylinders, in)
    /\ pc' = IF CylindersOK(cylinders') THEN "promptResultNb" ELSE "promptCylinders"
    /\ UNCHANGED <<make, model, sort, year, resultNb, runVars>>

\* lines 206-207
PromptResultNb ==
    /\ pc = "promptResultNb"
    /\ resultNb' = 0
    /\ pc' = "scanResultNb"
    /\ UNCHANGED <<make, model, sort, year, cylinders, runVars>>

\* lines 208-214
ScanResultNb ==
    /\ pc = "scanResultNb"
    /\ \E in \in ResultNbInputs : resultNb' = ScanlnInt(resultNb, in)
    /\ pc' = IF ResultNbOK(resultNb') THEN "promptSort" ELSE "promptResultNb"
    /\ UNCHANGED <<make, model, sort, year, cylinders, runVars>>

\* lines 218-219
PromptSort ==
    /\ pc = "promptSort"
    /\ sort' = ""
    /\ pc' = "scanSort"
    /\ UNCHANGED <<make, model, year, cylinders, resultNb, runVars>>

\* lines 220-225
ScanSort ==
    /\ pc = "scanSort"
    /\ \E in \in SortInputs : sort' = ScanlnString(sort, in)
    /\ pc' = IF SortOK(sort') THEN "fetchVehicles" ELSE "promptSort"
    /\ UNCHANGED <<make, model, year, cylinders, resultNb, runVars>>

\* line 228 and fetchVehicles lines 25-56: the call, up to the built URL
BuildQuery ==
    /\ pc = "fetchVehicles"
    /\ apiURL' = BuildURL(make, model, sort, year, cylinders, resultNb)
    /\ pc' = "httpGet"
    /\ UNCHANGED <<inputVars, body, vehicles, err, stdout, jsonFile, csvFile, jsonRun, csvRun>>

NextQuery ==
    \/ AskMake
    \/ AskModel
    \/ PromptYear
    \/ ScanYear
    \/ PromptCylinders
    \/ ScanCylinders
    \/ PromptResultNb
    \/ ScanResultNb
    \/ PromptSort
    \/ ScanSort
    \/ BuildQuery

\* main from its start to the moment fetchVehicles issues the GET
SpecQuery == InitMain /\ [][NextQuery]_vars

----------------------------------------------------------------------------
(* Decoded JSON documents *)

JNull == <<"null">>
JNum(tenths) == <<"num", tenths>>
JStr(s) == <<"str", s>>
JBool(b) == <<"bool", b>>
JArr(elems) == <<"arr", elems>>
JObj(pairs) == <<"obj", pairs>>
Garbage == <<"garbage">>

Tag(v) == v[1]

\* m[key] on a map[string]interface{}: the value of the last pair with that
\* key, and nil (which is also what a JSON null decodes to) when there is none
RECURSIVE Lookup(_, _)
Lookup(pairs, key) ==
    IF pairs = <<>> THEN JNull
    ELSE LET last == pairs[Len(pairs)]
         IN IF last[1] = key THEN last[2]
            ELSE Lookup(SubSeq(pairs, 1, Len(pairs) - 1), key)

\* v.(string) with the comma-ok form, the ok result dropped: "" on failure
AsString(v) == IF Tag(v) = "str" THEN v[2] ELSE ""

\* int(f) for a float64 held in tenths: truncation toward zero
Truncate(tenths) == IF tenths >= 0 THEN tenths \div 10 ELSE -((-tenths) \div 10)

\* v.(float64) with the comma-ok form, the ok result dropped, then int(...)
AsInt(v) == IF Tag(v) = "num" THEN Truncate(v[2]) ELSE 0

----------------------------------------------------------------------------
(* fetchVehicles, lines 75-107: decoding *)

ErrFetch == "failed to fetch data from external API"
ErrStatus(code) == "external API returned an error: " \o Itoa(code)
ErrRead == "failed to read response body"
ErrParse == "failed to parse JSON"
ErrStructure == "invalid JSON structure from API"

Unmarshal_NullIsError(b) ==
    IF Tag(b) = "obj" THEN [ok |-> TRUE, result |-> b[2]]
    ELSE [ok |-> FALSE, result |-> <<>>]

\* json.Unmarshal(body, &result) with result a map[string]interface{}:
\* an object fills the map, null leaves it nil, anything else is an error
Unmarshal(b) ==
    IF Tag(b) = "obj" THEN [ok |-> TRUE, result |-> b[2]]
    ELSE IF Tag(b) = "null" THEN [ok |-> TRUE, result |-> <<>>]
    ELSE [ok |-> FALSE, result |-> <<>>]

\* lines 92-104
VehicleOf(data) ==
    [Make |-> AsString(Lookup(data, "make")),
     Model |-> AsString(Lookup(data, "model")),
     Year |-> AsString(Lookup(data, "year")),
     Cylinders |-> AsInt(Lookup(data, "cylinders"))]

Appended_Front(vs, v) == <<v>> \o vs

\* line 99: vehicles = append(vehicles, ...)
Appended(vs, v) == Append(vs, v)

\* lines 87-105, from element i on.  record.(map[string]interface{}) is the
\* single-result form of the assertion: it panics when record is no map.
RECURSIVE DecodeRecords(_, _, _)
DecodeRecords(records, i, acc) ==
    IF i > Len(records) THEN [panic |-> FALSE, vehicles |-> acc]
    ELSE LET record == records[i]
         IN IF Tag(record) # "obj" THEN [panic |-> TRUE, vehicles |-> acc]
            ELSE LET data == Lookup(record[2], "fields")
                 IN IF Tag(data) # "obj"
                    THEN DecodeRecords(records, i + 1, acc)
                    ELSE DecodeRecords(records, i + 1, Appended(acc, VehicleOf(data[2])))

\* lines 75-107
DecodeBody(b) ==
    LET u == Unmarshal(b)
        records == Lookup(u.result, "records")
    IN IF ~u.ok THEN [panic |-> FALSE, err |-> ErrParse, vehicles |-> <<>>]
       ELSE IF Tag(records) # "arr"
       THEN [panic |-> FALSE, err |-> ErrStructure, vehicles |-> <<>>]
       ELSE LET d == DecodeRecords(records[2], 1, <<>>)
            IN [panic |-> d.panic, err |-> "", vehicles |-> d.vehicles]

----------------------------------------------------------------------------
(* Response bodies the remote API may send *)

Fields1 == JObj(<< <<"make", JStr("Toyota")>>, <<"model", JStr("Corolla")>>,
                   <<"year", JStr("2020")>>, <<"cylinders", JNum(40)>> >>)
Fields2 == JObj(<< <<"make", JStr("Honda")>>, <<"model", JStr("Civic")>>,
                   <<"year", JNum(20150)>>, <<"cylinders", JNum(69)>> >>)

Elements ==
    << JObj(<< <<"recordid", JStr("a1")>>, <<"fields", Fields1>> >>),
       JObj(<< <<"fields", Fields2>>, <<"recordid", JStr("b2")>> >>),
       JObj(<< <<"recordid", JStr("c3")>> >>),
       JObj(<< <<"fields", JStr("n/a")>> >>),
       JNull,
       JNum(70),
       JStr("vehicle"),
       JArr(<< Fields1 >>) >>

Envelope(elems) == JObj(<< <<"nhits", JNum(Len(elems) * 10)>>, <<"records", JArr(elems)>> >>)

RecordLists ==
    UNION {[1..n -> 1..Len(Elements)] : n \in 0..MaxRecords}

OtherBodies ==
    << Garbage,
       JNull,
       JArr(<< Elements[1] >>),
       JStr("records"),
       JNum(10),
       JBool(TRUE),
       JObj(<<>>),
       JObj(<< <<"error", JStr("Unknown dataset")>> >>),
       JObj(<< <<"records", Elements[1]>> >>),
       JObj(<< <<"records", JStr("none")>> >>),
       JObj(<< <<"records", JNull>> >>) >>

ErrorStatuses == {404, 500}

----------------------------------------------------------------------------
(* fetchVehicles, lines 58-107, and main, lines 228-253 *)

RunCriteria ==
    { <<"", "", "", 0, 0, 0>>,
      <<"Honda", "", "year", 2015, 4, 5>> }

\* the state when main calls fetchVehicles with validated criteria
Init ==
    /\ pc = "fetchVehicles"
    /\ \E c \in RunCriteria :
          /\ make = c[1] /\ model = c[2] /\ sort = c[3]
          /\ year = c[4] /\ cylinders = c[5] /\ resultNb = c[6]
    /\ RunInit

Returned(e, vs) ==
    /\ err' = e
    /\ vehicles' = vs
    /\ pc' = "returned"

\* lines 58-72: the GET fails, answers a non-200 status, or its body cannot
\* be read; otherwise the whole body is in memory
HttpGet ==
    /\ pc = "httpGet"
    /\ \/ Returned(ErrFetch, <<>>) /\ UNCHANGED body
       \/ \E code \in ErrorStatuses : code # StatusOK /\ Returned(ErrStatus(code), <<>>) /\ UNCHANGED body
       \/ Returned(ErrRead, <<>>) /\ UNCHANGED body
       \/ /\ \/ \E k \in 1..Len(OtherBodies) : body' = OtherBodies[k]
             \/ \E f \in RecordLists :
                    body' = Envelope([i \in 1..Len(f) |-> Elements[f[i]]])
          /\ pc' = "decode"
          /\ UNCHANGED <<err, vehicles>>
    /\ UNCHANGED <<inputVars, apiURL, stdout, jsonFile, csvFile, jsonRun, csvRun>>

\* lines 75-107: the decode returns, or panics in the loop
Decode ==
    /\ pc = "decode"
    /\ LET d == DecodeBody(body)
       IN IF d.panic
          THEN pc' = "panicked" /\ UNCHANGED <<err, vehicles>>
          ELSE Returned(d.err, d.vehicles)
    /\ UNCHANGED <<inputVars, apiURL, body, stdout, jsonFile, csvFile, jsonRun, csvRun>>

AfterError_Continue(e) == "display"

\* lines 229-231: log.Fatalf ends the process
AfterError(e) == IF e # "" THEN "exited" ELSE "display"

CheckErr ==
    /\ pc = "returned"
    /\ pc' = AfterError(err)
    /\ UNCHANGED <<inputVars, runVars>>

NoneFound == "No vehicles found for the given criteria."
Found == "Vehicles found:"

\* line 239
VehicleLine(v) ==
    "Make: " \o v.Make \o ", Model: " \o v.Model \o ", Year: " \o v.Year
             \o ", Cylinders: " \o Itoa(v.Cylinders)

IsEmpty_Never(vs) == FALSE

\* line 234
IsEmpty(vs) == Len(vs) = 0

\* lines 234-240
Display ==
    /\ pc = "display"
    /\ IF IsEmpty(vehicles)
       THEN /\ stdout' = Append(stdout, NoneFound)
            /\ pc' = "done"
       ELSE /\ stdout' = stdout \o <<Found>> \o [i \in 1..Len(vehicles) |-> VehicleLine(vehicles[i])]
            /\ pc' = "saveJSON"
    /\ UNCHANGED <<inputVars, apiURL, body, vehicles, err, jsonFile, csvFile, jsonRun, csvRun>>

----------------------------------------------------------------------------
(* saveVehiclesToJSON, lines 110-132 *)

\* json.MarshalIndent(vehicles, "", "  "): one object per vehicle, keyed by
\* the struct tags of lines 16-19.  It cannot fail for a []Vehicle.
MarshalIndent(vs) ==
    [i \in 1..Len(vs) |->
        [make |-> vs[i].Make, model |-> vs[i].Model,
         year |-> vs[i].Year, cylinders |-> vs[i].Cylinders]]

ErrCreateJSON == "failed to create JSON file"
ErrWriteJSON == "failed to write JSON to file"
SavedJSON == "Vehicles data saved to vehicles.json"

\* The call with the file system's answers: whether os.Create succeeds and
\* how many entries file.Write puts in the file (all of them on success).
saveVehiclesToJSON(vs, createOK, written) ==
    LET jsonData == MarshalIndent(vs)
    IN IF ~createOK
       THEN [run |-> [called |-> TRUE, createOK |-> FALSE, writeOK |-> FALSE,
                      err |-> ErrCreateJSON, saved |-> FALSE],
             file |-> jsonFile, out |-> <<>>]
       ELSE IF written < Len(jsonData)
       THEN [run |-> [called |-> TRUE, createOK |-> TRUE, writeOK |-> FALSE,
                      err |-> ErrWriteJSON, saved |-> FALSE],
             file |-> [exists |-> TRUE, content |-> SubSeq(jsonData, 1, written)],
             out |-> <<>>]
       ELSE [run |-> [called |-> TRUE, createOK |-> TRUE, writeOK |-> TRUE,
                      err |-> "", saved |-> TRUE],
             file |-> [exists |-> TRUE, content |-> jsonData],
             out |-> <<SavedJSON>>]

AfterJSON_Abort(e) == IF e # "" THEN "done" ELSE "saveCSV"

\* lines 244-249: the error is printed and main goes on to the CSV export
AfterJSON(e) == "saveCSV"

\* lines 243-246
SaveJSON ==
    /\ pc = "saveJSON"
    /\ \E createOK \in BOOLEAN, written \in 0..Len(vehicles) :
          LET r == saveVehiclesToJSON(vehicles, createOK, written)
          IN /\ jsonRun' = r.run
             /\ jsonFile' = r.file
             /\ stdout' = stdout \o r.out \o
                     (IF r.run.err # "" THEN <<"Error saving to JSON: " \o r.run.err>> ELSE <<>>)
             /\ pc' = AfterJSON(r.run.err)
    /\ UNCHANGED <<inputVars, apiURL, body, vehicles, err, csvFile, csvRun>>

----------------------------------------------------------------------------
(* saveVehiclesToCSV, lines 134-166 *)

Header == <<"Make", "Model", "Year", "Cylinders">>

\* lines 153-158
Row(v) == <<v.Make, v.Model, v.Year, Itoa(v.Cylinders)>>

ErrCreateCSV == "failed to create CSV file"
ErrWriteHeader == "failed to write header to CSV"
ErrWriteRow == "failed to write row to CSV"
SavedCSV == "Vehicles data saved to vehicles.csv"

\* csv.Writer over a bufio.Writer: rows wait in buf and reach the file when
\* the buffer is flushed.  flushes counts the flushes so far; the failAt-th
\* flush is the one the file system fails (0: none).  A failed flush sets
\* the writer's sticky error, which every later call returns.
NewWriter == [buf |-> <<>>, file |-> <<>>, failed |-> FALSE, flushes |-> 0]

Flush(w, failAt) ==
    IF w.failed \/ w.buf = <<>> THEN w
    ELSE IF w.flushes + 1 = failAt
    THEN [w EXCEPT !.failed = TRUE, !.flushes = @ + 1]
    ELSE [w EXCEPT !.file = @ \o w.buf, !.buf = <<>>, !.flushes = @ + 1]

\* writer.Write(row): flushes first when the buffer is full
WriterWrite(w, row, failAt) ==
    LET f == IF Len(w.buf) >= BufRows THEN Flush(w, failAt) ELSE w
    IN IF f.failed THEN f ELSE [f EXCEPT !.buf = Append(@, row)]

\* lines 152-162, from vehicle i on: stops at the first failed Write
RECURSIVE WriteRows(_, _, _, _)
WriteRows(w, vs, i, failAt) ==
    IF i > Len(vs) \/ w.failed THEN w
    ELSE WriteRows(WriterWrite(w, Row(vs[i]), failAt), vs, i + 1, failAt)

\* most flushes one call can make
MaxFlushes(vs) == (Len(vs) \div BufRows) + 1

\* what the deferred writer.Flush() of line 143 leaves in the file
Deferred(w, failAt) == Flush(w, failAt)

\* The call with the file system's answers.  The error returned is decided
\* before the deferred Flush runs; nothing reads the Flush's outcome.
saveVehiclesToCSV(vs, createOK, failAt) ==
    IF ~createOK
    THEN [run |-> [called |-> TRUE, createOK |-> FALSE, writeOK |-> FALSE,
                   err |-> ErrCreateCSV, saved |-> FALSE],
          file |-> csvFile, out |-> <<>>]
    ELSE LET h == WriterWrite(NewWriter, Header, failAt)
             w == WriteRows(h, vs, 1, failAt)
             e == IF h.failed THEN ErrWriteHeader
                  ELSE IF w.failed THEN ErrWriteRow ELSE ""
             d == Deferred(w, failAt)
         IN [run |-> [called |-> TRUE, createOK |-> TRUE, writeOK |-> ~d.failed,
                      err |-> e, saved |-> e = ""],
             file |-> [exists |-> TRUE, content |-> d.file],
             out |-> IF e = "" THEN <<SavedCSV>> ELSE <<>>]

\* lines 249-252
SaveCSV ==
    /\ pc = "saveCSV"
    /\ \E createOK \in BOOLEAN, failAt \in 0..MaxFlushes(vehicles) :
          LET r == saveVehiclesToCSV(vehicles, createOK, failAt)
          IN /\ csvRun' = r.run
             /\ csvFile' = r.file
             /\ stdout' = stdout \o r.out \o
                     (IF r.run.err # "" THEN <<"Error saving to CSV: " \o r.run.err>> ELSE <<>>)
             /\ pc' = "done"
    /\ UNCHANGED <<inputVars, apiURL, body, vehicles, err, jsonFile, jsonRun>>

Next ==
    \/ BuildQuery
    \/ HttpGet
    \/ Decode
    \/ CheckErr
    \/ Display
    \/ SaveJSON
    \/ SaveCSV

\* main from the call of fetchVehicles to the end of the process
Spec == Init /\ [][Next]_vars

----------------------------------------------------------------------------
(* Properties *)

InSeq(x, s) == \E i \in 1..Len(s) : s[i] = x

IsPrefix(p, s) == Len(p) =< Len(s) /\ SubSeq(s, 1, Len(p)) = p

\* the URL has been built and handed to http.Get
URLBuilt == pc = "httpGet"

\* how often a clause occurs: once when its field is set, else never
Occurs(set) == IF set THEN 1 ELSE 0

\* C1: each optional clause occurs in the built URL exactly once when its
\* own field is set and not at all when it is unset, whatever the other
\* fields hold.
C1_ClausePresence ==
    URLBuilt =>
        /\ Count("&sort=", apiURL) = Occurs(sort # "")
        /\ Count("&refine.make=", apiURL) = Occurs(make # "")
        /\ Count("&refine.model=", apiURL) = Occurs(model # "")
        /\ Count("&refine.year=", apiURL) = Occurs(year # 0)
        /\ Count("&refine.cylinders=", apiURL) = Occurs(cylinders # 0)

\* C9: the built URL holds exactly one row-limit clause, directly after the
\* base endpoint: &rows=<resultNb> when resultNb is nonzero, &rows=10 when
\* it is 0; with every filter unset the URL is the base endpoint and &rows=10.
C9_RowLimitClause ==
    URLBuilt =>
        /\ Count("&rows=", apiURL) = 1
        /\ HasPrefix(apiURL, BaseURL \o "&rows=" \o (IF resultNb = 0 THEN "10" ELSE Itoa(resultNb)))
        /\ (make = "" /\ model = "" /\ sort = "" /\ year = 0 /\ cylinders = 0 /\ resultNb = 0
               => apiURL = BaseURL \o "&rows=10")

AtCore == pc \in {"fetchVehicles", "httpGet"}

CriteriaValid ==
    /\ year = 0 \/ year \in MinYear..MaxYear
    /\ cylinders = 0 \/ cylinders \in CylinderCounts
    /\ resultNb \in 0..MaxResultNb
    /\ sort = "" \/ sort \in SortFields

\* an entry outside the allowed values sends main back to the same prompt
Rejected ==
    /\ pc = "scanYear" /\ ~(year' = 0 \/ year' \in MinYear..MaxYear) => pc' = "promptYear"
    /\ pc = "scanCylinders" /\ ~(cylinders' = 0 \/ cylinders' \in CylinderCounts)
           => pc' = "promptCylinders"
    /\ pc = "scanResultNb" /\ resultNb' \notin 0..MaxResultNb => pc' = "promptResultNb"
    /\ pc = "scanSort" /\ ~(sort' = "" \/ sort' \in SortFields) => pc' = "promptSort"

\* each prompt is asked with its value unset
AskedUnset ==
    /\ pc = "scanYear" => year = 0
    /\ pc = "scanCylinders" => cylinders = 0
    /\ pc = "scanResultNb" => resultNb = 0
    /\ pc = "scanSort" => sort = ""

\* C10: when fetchVehicles is called year is 0 or in [1980, 2025],
\* cylinders is 0 or one of 3,4,5,6,8,10,12,16, resultNb is in [0, 50] and
\* sort is empty or one of the four sort fields; an entry outside these
\* values is followed by the same prompt, which is asked with the value
\* reset to unset.
C10_InputConstraints ==
    /\ [](AtCore => CriteriaValid)
    /\ [](AskedUnset)
    /\ [][Rejected]_vars

C10_Witness ==
    /\ pc = "promptSort" /\ sort = "price"
    /\ year = MaxYear /\ cylinders = 16 /\ resultNb = MaxResultNb

\* the `records` value of a parsed body (nil when the top level has none)
TopRecords(b) == IF Tag(b) = "obj" THEN Lookup(b[2], "records") ELSE JNull

HasRecords == Tag(TopRecords(body)) = "arr"

Usable(e) == Tag(e) = "obj" /\ Tag(Lookup(e[2], "fields")) = "obj"

\* the vehicles of the usable elements of the payload, in payload order
Expected ==
    LET usable == SelectSeq(TopRecords(body)[2], Usable)
    IN [i \in 1..Len(usable) |-> VehicleOf(Lookup(usable[i][2], "fields")[2])]

Decoded == pc \in {"returned", "exited", "panicked", "display", "saveJSON", "saveCSV", "done"}

\* C2: for a payload whose top level holds a `records` sequence, decoding
\* never aborts and never fails because of one element: the elements
\* without a usable `fields` mapping are dropped and the rest are returned.
C2_ElementsNeverAbort ==
    Decoded /\ HasRecords =>
        /\ pc # "panicked"
        /\ err = ""
        /\ Len(vehicles) = Len(Expected)

\* C3: once the listing of a non-empty result is printed, the CSV export is
\* attempted after the JSON export whatever the JSON export returned; when
\* the JSON export failed and the CSV destination is writable, the CSV
\* export saves every row, only the JSON error is printed, and main ends
\* normally.
C3_ExporterIndependence ==
    /\ csvRun.called => jsonRun.called
    /\ jsonRun.called => pc \in {"saveCSV", "done"}
    /\ pc = "done" /\ vehicles # <<>> => jsonRun.called /\ csvRun.called
    /\ pc = "done" /\ jsonRun.err # "" /\ csvRun.createOK /\ csvRun.writeOK =>
          /\ csvRun.err = "" /\ csvRun.saved
          /\ csvFile.content = <<Header>> \o [i \in 1..Len(vehicles) |-> Row(vehicles[i])]
          /\ InSeq("Error saving to JSON: " \o jsonRun.err, stdout)
          /\ InSeq(SavedCSV, stdout)
          /\ \A i \in 1..Len(stdout) : ~HasPrefix(stdout[i], "Error saving to CSV")

C3_Witness ==
    /\ pc = "done"
    /\ jsonRun.called /\ jsonRun.err = ErrCreateJSON /\ jsonFile = OldJSON
    /\ csvRun.called /\ csvRun.createOK /\ csvRun.writeOK /\ csvRun.saved
    /\ Len(vehicles) = 2

\* C4: an exporter whose destination was created and whose write to it
\* failed returns a write-failure error and does not print that the data
\* was saved; for both exporters, also when the write fails in the flush.
C4_WriteFailuresReported ==
    /\ jsonRun.called /\ jsonRun.createOK /\ ~jsonRun.writeOK
          => jsonRun.err = ErrWriteJSON /\ ~jsonRun.saved
    /\ csvRun.called /\ csvRun.createOK /\ ~csvRun.writeOK
          => csvRun.err \in {ErrWriteHeader, ErrWriteRow} /\ ~csvRun.saved

\* C5: when the GET fails, the status is not 200, the body cannot be read
\* or parsed, or `records` is absent or no sequence, fetchVehicles returns
\* an error and main exits on it: nothing is listed, no exporter is called
\* and both files stay as they were.
C5_FatalBeforeOutput ==
    /\ pc \in {"returned", "exited", "display", "saveJSON", "saveCSV", "done"} /\ ~HasRecords
          => err # ""
    /\ err # "" =>
          /\ pc \in {"returned", "exited"}
          /\ vehicles = <<>>
          /\ stdout = <<>>
          /\ ~jsonRun.called /\ ~csvRun.called
          /\ jsonFile = OldJSON /\ csvFile = OldCSV
    /\ pc = "exited" => err # ""

C5_Witness ==
    /\ pc = "exited"
    /\ err = ErrStructure
    /\ Tag(body) = "obj"

\* C6: a successful fetch and decode of zero vehicles, also when every
\* element of `records` was dropped, prints the no-vehicles line and ends:
\* no exporter is called and both files stay as they were.
C6_EmptyResult ==
    /\ pc \in {"saveJSON", "saveCSV"} => vehicles # <<>>
    /\ jsonRun.called \/ csvRun.called => vehicles # <<>>
    /\ pc = "done" /\ vehicles = <<>> =>
          /\ stdout = <<NoneFound>>
          /\ ~jsonRun.called /\ ~csvRun.called
          /\ jsonFile = OldJSON /\ csvFile = OldCSV

C6_Witness ==
    /\ pc = "done"
    /\ err = "" /\ vehicles = <<>>
    /\ HasRecords /\ Len(TopRecords(body)[2]) = 2
    /\ stdout = <<NoneFound>>

Parses(b) == Tag(b) \notin {"none", "garbage"}

\* C7 as stated: an unparsable body fails with "failed to parse JSON", and
\* every body that parses but has no `records` sequence at its top level
\* fails with "invalid JSON structure from API"; no vehicles are returned.
C7_ClassifiedByCause ==
    pc \in {"returned", "exited"} /\ Tag(body) # "none" =>
        /\ body = Garbage => err = ErrParse /\ vehicles = <<>>
        /\ Parses(body) /\ ~HasRecords => err = ErrStructure /\ vehicles = <<>>

\* C7 amended: a body that is not JSON, or whose top level is neither an
\* object nor null, fails with "failed to parse JSON"; a body whose top
\* level is an object or null without a `records` sequence fails with
\* "invalid JSON structure from API"; no vehicles are returned.
C7_ClassifiedByTopLevel ==
    pc \in {"returned", "exited"} /\ Tag(body) # "none" =>
        /\ Tag(body) \notin {"obj", "null"} => err = ErrParse /\ vehicles = <<>>
        /\ Tag(body) \in {"obj", "null"} /\ ~HasRecords => err = ErrStructure /\ vehicles = <<>>

C7_Witness ==
    /\ pc = "exited"
    /\ Tag(body) = "arr"
    /\ err = ErrParse

\* C8: a decode that returns yields exactly the vehicles of the usable
\* elements of `records`, in payload order, and the console lines, the
\* JSON entries and the CSV rows follow that order.
C8_OrderPreserved ==
    /\ pc \in {"returned", "display", "saveJSON", "saveCSV", "done"} /\ HasRecords
          => vehicles = Expected
    /\ pc \in {"saveJSON", "saveCSV", "done"} /\ vehicles # <<>> =>
          SubSeq(stdout, 1, Len(Expected) + 1)
              = <<Found>> \o [i \in 1..Len(Expected) |-> VehicleLine(Expected[i])]
    /\ jsonRun.called /\ jsonRun.createOK =>
          /\ IsPrefix(jsonFile.content, MarshalIndent(Expected))
          /\ jsonRun.writeOK => jsonFile.content = MarshalIndent(Expected)
    /\ csvRun.called /\ csvRun.createOK =>
          /\ IsPrefix(csvFile.content, <<Header>> \o [i \in 1..Len(Expected) |-> Row(Expected[i])])
          /\ csvRun.writeOK =>
                csvFile.content = <<Header>> \o [i \in 1..Len(Expected) |-> Row(Expected[i])]

C8_Witness ==
    /\ pc = "done"
    /\ body = Envelope(<<Elements[2], Elements[3], Elements[1]>>)
    /\ Len(vehicles) = 2 /\ vehicles[1].Make = "Honda" /\ vehicles[2].Make = "Toyota"
    /\ jsonRun.writeOK /\ csvRun.writeOK

====
